---- MODULE Spec2Model ----
(***************************************************************************)
(* git-chronicler: the message-generation pipeline of src/main.rs.         *)
(*                                                                         *)
(* Text is modelled as a sequence of one-character strings, so that        *)
(* prefix stripping, trimming, splitting and concatenation are computed    *)
(* the way the Rust standard library computes them.                        *)
(***************************************************************************)
EXTENDS Integers, Sequences, FiniteSets, TLC

VARIABLES
    command,      \* opts.command: "write" | "fixup" | "check" | "summary"
    signoff,      \* Write { signoff }
    cached,       \* Write { cached }
    interactive,  \* Write { interactive }
    head,         \* repository: content of every tracked file at HEAD
    index,        \* repository: content of every tracked file in the index
    worktree,     \* repository: content of every tracked file in the work tree
    gitLog,       \* the commit messages git log returns at line 183, newest first, each a list of lines
    pc,           \* position of main
    patch,        \* the (prompt, patch) pair's patch
    messages,     \* Vec<Message> handed to post_request
    requests,     \* number of post_request calls made
    response,     \* what post_request returned
    msg,          \* the text handed to the action applier
    commits,      \* repository mutations performed (commit / amend), in order
    tempfile,     \* interactive write: "none" | "exists" | "removed"
    wcExit,       \* how write_commit returned
    stdout,       \* text printed with println!
    stderr,       \* text printed with eprintln!
    failure,      \* the step that ended the run with Err, or "none"
    toolArgs,     \* tool_read_file: the argument text params_str
    toolRepo,     \* tool_read_file: the paths that exist at HEAD
    toolRes,      \* tool_read_file: the Result returned
    gitCalls      \* tool_read_file: the git commands run, in order

vars == << command, signoff, cached, interactive, head, index, worktree,
           gitLog, pc, patch, messages, requests, response, msg, commits,
           tempfile, wcExit, stdout, stderr, failure, toolArgs, toolRepo,
           toolRes, gitCalls >>

(***************************************************************************)
(* Bounds of the model.                                                    *)
(***************************************************************************)
MaxChoices == 2
MaxTail == 3
MaxLogItems == 5

(***************************************************************************)
(* Text helpers: Rust's str methods on sequences of characters.            *)
(***************************************************************************)
NL == "\n"
\* the NUL character (%x00), which a TLA+ string cannot spell
NUL == "NUL"

\* char::is_whitespace, restricted to the characters the model uses
IsWhitespace(c) == c \in {" ", "\t", "\n", "\r"}

RECURSIVE TrimStart(_)
TrimStart(s) ==
    IF s = << >> THEN << >>
    ELSE IF IsWhitespace(Head(s)) THEN TrimStart(Tail(s)) ELSE s

RECURSIVE TrimEnd(_)
TrimEnd(s) ==
    IF s = << >> THEN << >>
    ELSE IF IsWhitespace(s[Len(s)]) THEN TrimEnd(SubSeq(s, 1, Len(s) - 1))
    ELSE s

\* str::trim
Trim(s) == TrimEnd(TrimStart(s))

\* str::strip_prefix: Some(rest) or None
StripPrefix(s, p) ==
    IF Len(s) >= Len(p) /\ SubSeq(s, 1, Len(p)) = p
    THEN [some |-> TRUE, rest |-> SubSeq(s, Len(p) + 1, Len(s))]
    ELSE [some |-> FALSE, rest |-> << >>]

\* str::split(char): the pieces between separators, empty pieces included
RECURSIVE SplitAcc(_, _, _)
SplitAcc(s, sep, cur) ==
    IF s = << >> THEN << cur >>
    ELSE IF Head(s) = sep THEN << cur >> \o SplitAcc(Tail(s), sep, << >>)
    ELSE SplitAcc(Tail(s), sep, Append(cur, Head(s)))

Split(s, sep) == SplitAcc(s, sep, << >>)

\* one line without its terminator: a trailing "\r" belongs to the terminator
StripCR(l) ==
    IF l # << >> /\ l[Len(l)] = "\r" THEN SubSeq(l, 1, Len(l) - 1) ELSE l

\* str::lines: split at "\n", a final empty piece is not a line, and the
\* "\r" of a "\r\n" terminator is removed
Lines(s) ==
    LET raw == Split(s, NL)
        cut == IF raw[Len(raw)] = << >> THEN SubSeq(raw, 1, Len(raw) - 1) ELSE raw
        last == Len(cut)
    IN  [i \in 1..last |-> IF i < Len(raw) THEN StripCR(cut[i]) ELSE cut[i]]

\* [&str]::join(sep)
RECURSIVE Join(_, _)
Join(ls, sep) ==
    IF ls = << >> THEN << >>
    ELSE IF Len(ls) = 1 THEN ls[1]
    ELSE ls[1] \o sep \o Join(Tail(ls), sep)

(***************************************************************************)
(* check_commit                                                            *)
(***************************************************************************)
ERROR_PREFIX == << "E", "R", "R", "O", "R", "\n" >>

\* println! / eprintln!: the text followed by a newline
PrintLn(stream, text) == stream \o text \o << NL >>

\* check_commit looking for ERROR without the newline that ends the line
check_commit_any_error(m) ==
    LET stripped == StripPrefix(m, << "E", "R", "R", "O", "R" >>)
    IN  IF stripped.some
        THEN [ok |-> FALSE, out |-> << >>,
              err |-> PrintLn(<< >>, Trim(stripped.rest))]
        ELSE [ok |-> TRUE, out |-> PrintLn(<< >>, m), err |-> << >>]

\* check_commit(msg), as the Result and what it prints
check_commit(m) ==
    LET stripped == StripPrefix(m, ERROR_PREFIX)
    IN  IF stripped.some
        THEN [ok |-> FALSE, out |-> << >>,
              err |-> PrintLn(<< >>, Trim(stripped.rest))]
        ELSE [ok |-> TRUE, out |-> PrintLn(<< >>, m), err |-> << >>]

(***************************************************************************)
(* get_last_git_messages                                                   *)
(***************************************************************************)
Letters ==
    { "a", "b", "c", "d", "e", "f", "g", "h", "i", "j", "k", "l", "m",
      "n", "o", "p", "q", "r", "s", "t", "u", "v", "w", "x", "y", "z",
      "A", "B", "C", "D", "E", "F", "G", "H", "I", "J", "K", "L", "M",
      "N", "O", "P", "Q", "R", "S", "T", "U", "V", "W", "X", "Y", "Z" }
Digits == { "0", "1", "2", "3", "4", "5", "6", "7", "8", "9" }

\* the character class [A-Za-z0-9-]
TokenClass(c) == c \in Letters \cup Digits \cup { "-" }

\* length of the longest prefix of t made of characters satisfying the class
RECURSIVE TokenRun(_)
TokenRun(t) ==
    IF t = << >> \/ ~TokenClass(Head(t)) THEN 0 ELSE 1 + TokenRun(Tail(t))

RECURSIVE SpaceRun(_)
SpaceRun(t) ==
    IF t = << >> \/ ~IsWhitespace(Head(t)) THEN 0 ELSE 1 + SpaceRun(Tail(t))

\* Regex ^[A-Za-z0-9-]+:\s+.+$ on t: the class run must end at a colon, \s+
\* takes at least one of the whitespace that follows, and .+ must then cover
\* what is left up to the end without crossing a newline
trailer_regex_is_match(t) ==
    LET k == TokenRun(t)
        after == SubSeq(t, k + 2, Len(t))
        w == SpaceRun(after)
    IN  /\ k >= 1
        /\ Len(t) >= k + 1
        /\ t[k + 1] = ":"
        /\ \E j \in 1..w :
              LET rest == SubSeq(after, j + 1, Len(after))
              IN  /\ rest # << >>
                  /\ \A i \in 1..Len(rest) : rest[i] # NL

\* .filter instead of .take_while: trailer lines go, what follows them stays
RECURSIVE FilterNotTrailer(_)
FilterNotTrailer(ls) ==
    IF ls = << >> THEN << >>
    ELSE IF trailer_regex_is_match(Trim(Head(ls))) THEN FilterNotTrailer(Tail(ls))
    ELSE << Head(ls) >> \o FilterNotTrailer(Tail(ls))

\* .take_while(|line| !trailer_regex.is_match(line.trim()))
RECURSIVE TakeWhileNotTrailer(_)
TakeWhileNotTrailer(ls) ==
    IF ls = << >> THEN << >>
    ELSE IF trailer_regex_is_match(Trim(Head(ls))) THEN << >>
    ELSE << Head(ls) >> \o TakeWhileNotTrailer(Tail(ls))

\* the closure of .map(...): one entry of the log to one style sample
StripTrailers(entry) == Trim(Join(TakeWhileNotTrailer(Lines(entry)), << NL >>))

RECURSIVE FilterNonEmpty(_)
FilterNonEmpty(ms) ==
    IF ms = << >> THEN << >>
    ELSE IF Len(Head(ms)) > 0 THEN << Head(ms) >> \o FilterNonEmpty(Tail(ms))
    ELSE FilterNonEmpty(Tail(ms))

\* get_last_git_messages, from the stdout of git log on
get_last_git_messages(out) ==
    LET entries == Split(out, NUL)
    IN  FilterNonEmpty([i \in 1..Len(entries) |-> StripTrailers(entries[i])])

\* git log --no-merges --pretty=format:%B%x00: every commit's raw body (its
\* lines, each ended by a newline) followed by NUL, with a newline between
\* two commits
RECURSIVE RawBody(_)
RawBody(lines) ==
    IF lines = << >> THEN << >>
    ELSE Head(lines) \o << NL >> \o RawBody(Tail(lines))

RECURSIVE GitLogOutput(_)
GitLogOutput(log) ==
    IF log = << >> THEN << >>
    ELSE IF Len(log) = 1 THEN RawBody(log[1]) \o << NUL >>
    ELSE RawBody(log[1]) \o << NUL, NL >> \o GitLogOutput(Tail(log))

(***************************************************************************)
(* The repository, as the git subprocess sees it.  Every tracked file has  *)
(* a content at HEAD, in the index and in the work tree; a change is a     *)
(* triple << file, old content, new content >>.                            *)
(***************************************************************************)
Files == { "a", "b" }
IndexContents == { 0, 1 }
WorktreeContents == { 0, 1, 2 }

Changes(old, new) == { << f, old[f], new[f] >> : f \in { g \in Files : old[g] # new[g] } }

\* git diff -U50: work tree against index; with --cached: index against HEAD
GitDiff(cachedFlag, h, i, w) ==
    IF cachedFlag THEN Changes(h, i) ELSE Changes(i, w)

\* what git commit records: with -a every tracked modification (work tree
\* against HEAD), without it the staged changes (index against HEAD)
GitCommitChanges(all, h, i, w) ==
    IF all THEN Changes(h, w) ELSE Changes(h, i)

\* git's cleanup of a message leaves nothing: the commit is aborted
BlankMessage(m) == Trim(m) = << >>

\* get_diff without the is_empty test
get_diff_unchecked(cachedFlag, gitOk, h, i, w) ==
    IF ~gitOk THEN [ok |-> FALSE, err |-> "git", val |-> { }]
    ELSE [ok |-> TRUE, err |-> "none", val |-> GitDiff(cachedFlag, h, i, w)]

\* get_diff(cached): Err when git fails or when the diff is empty
get_diff(cachedFlag, gitOk, h, i, w) ==
    LET r == GitDiff(cachedFlag, h, i, w)
    IN  IF ~gitOk THEN [ok |-> FALSE, err |-> "git", val |-> { }]
        ELSE IF r = { } THEN [ok |-> FALSE, err |-> "empty_diff", val |-> { }]
        ELSE [ok |-> TRUE, err |-> "none", val |-> r]

\* get_last_commit / get_branch_patches: the stdout of git log -p, or Err
get_log_patch(what, gitOk) ==
    IF gitOk THEN [ok |-> TRUE, err |-> "none", val |-> { << what >> }]
    ELSE [ok |-> FALSE, err |-> "git", val |-> { }]

\* the match on opts.command that picks (prompt, patch)
CollectPatch(cmd, cachedFlag, gitOk, h, i, w) ==
    CASE cmd = "fixup"   -> get_log_patch("log -p -1", gitOk)
      [] cmd = "check"   -> get_log_patch("log -p -1", gitOk)
      [] cmd = "write"   -> get_diff(cachedFlag, gitOk, h, i, w)
      [] cmd = "summary" -> get_log_patch("log -p base..HEAD", gitOk)

Prompt(cmd) ==
    CASE cmd = "fixup"   -> "inline_prompt"
      [] cmd = "check"   -> "check_prompt"
      [] cmd = "write"   -> "write_prompt"
      [] cmd = "summary" -> "summary_prompt"

make_message(role, content) == [role |-> role, content |-> content]

\* the message list main builds: one system message per system prompt (the
\* patch, then the style hint), then the user message
InitialMessages(cmd, p, history) ==
    << make_message("system", [kind |-> "patch", body |-> p]),
       make_message("system", [kind |-> "git_history_prompt", body |-> history]),
       make_message("user", [kind |-> "prompt", body |-> Prompt(cmd)]) >>

(***************************************************************************)
(* The provider's reply, and the text extracted from it.                   *)
(***************************************************************************)
Contents ==
    { << >>,
      << "F", "i", "x" >>,
      << "E", "R", "R", "O", "R", "\n", " ", "n", "o" >> }

SeqsUpTo(S, n) == UNION { [1..k -> S] : k \in 0..n }

\* post_request returns Err, or a response whose choices are None or Some(list)
Replies ==
    { [kind |-> "err", choices |-> << >>], [kind |-> "none", choices |-> << >>] }
    \cup { [kind |-> "some", choices |-> c] : c \in SeqsUpTo(Contents, MaxChoices) }

\* only the first choice is read
FirstContent(choices) == IF choices = << >> THEN << >> ELSE Head(choices)

\* .into_iter().map(|choice| choice.message.content).collect::<String>()
RECURSIVE CollectContents(_)
CollectContents(choices) ==
    IF choices = << >> THEN << >>
    ELSE Head(choices) \o CollectContents(Tail(choices))

\* a reply without choices taken as an empty text
ExtractMsgOrDefault(r) == [ok |-> TRUE, val |-> CollectContents(r.choices)]

\* the match on response.choices
ExtractMsg(r) ==
    IF r.kind = "some" /\ r.choices # << >>
    THEN [ok |-> TRUE, val |-> CollectContents(r.choices)]
    ELSE [ok |-> FALSE, val |-> << >>]

\* the arms of check and fixup swapped
ActionApplierSwapped(cmd) ==
    CASE cmd = "fixup"   -> "check_commit"
      [] cmd = "check"   -> "amend_commit"
      [] cmd = "write"   -> "write_commit"
      [] cmd = "summary" -> "println"

\* the match on opts.command that applies the answer
ActionApplier(cmd) ==
    CASE cmd = "fixup"   -> "amend_commit"
      [] cmd = "check"   -> "check_commit"
      [] cmd = "write"   -> "write_commit"
      [] cmd = "summary" -> "println"

\* a temporary file that is kept (NamedTempFile::keep, or a plain File)
KeepTempfile(t) == t

\* NamedTempFile's Drop, run when write_commit's interactive block is left:
\* the file is removed
DropTempfile(t) == IF t = "exists" THEN "removed" ELSE t

(***************************************************************************)
(* main, step by step.  Every blocking call (a git subprocess, the         *)
(* provider request) is one step whose outcome the environment chooses.    *)
(***************************************************************************)
Commands == { "write", "fixup", "check", "summary" }

\* two histories a repository may hold when main starts
HistoryLogs ==
    { << >>,
      << << << "F", "i", "x" >>, << >>, << "T", ":", " ", "v" >> >> >> }

PipelineVars ==
    << command, signoff, cached, interactive, head, index, worktree, gitLog, pc,
       patch, messages, requests, response, msg, commits, tempfile, wcExit,
       stdout, stderr, failure >>

ToolVars == << toolArgs, toolRepo, toolRes, gitCalls >>

\* no tool call is in progress
ToolIdle ==
    /\ toolArgs = [wellFormed |-> FALSE, path |-> << "absent" >>, extra |-> FALSE]
    /\ toolRepo = { }
    /\ toolRes = [state |-> "idle", ok |-> FALSE, val |-> << >>]
    /\ gitCalls = << >>

PipelineIdle ==
    /\ command = "none"
    /\ signoff = FALSE /\ cached = FALSE /\ interactive = FALSE
    /\ head = [f \in Files |-> 0]
    /\ index = [f \in Files |-> 0]
    /\ worktree = [f \in Files |-> 0]
    /\ gitLog = << >>
    /\ pc = "idle"
    /\ patch = { }
    /\ messages = << >>
    /\ requests = 0
    /\ response = [kind |-> "pending", choices |-> << >>]
    /\ msg = << >>
    /\ commits = << >>
    /\ tempfile = "none"
    /\ wcExit = "none"
    /\ stdout = << >>
    /\ stderr = << >>
    /\ failure = "none"

\* the state main starts in: the parsed command line and the repository
Init ==
    /\ command \in Commands
    /\ signoff \in BOOLEAN /\ cached \in BOOLEAN /\ interactive \in BOOLEAN
    /\ command # "write" => ~signoff /\ ~cached /\ ~interactive
    /\ head = [f \in Files |-> 0]
    /\ index \in [Files -> IndexContents]
    /\ worktree \in [Files -> WorktreeContents]
    /\ gitLog \in HistoryLogs
    /\ pc = "collect"
    /\ patch = { }
    /\ messages = << >>
    /\ requests = 0
    /\ response = [kind |-> "pending", choices |-> << >>]
    /\ msg = << >>
    /\ commits = << >>
    /\ tempfile = "none"
    /\ wcExit = "none"
    /\ stdout = << >>
    /\ stderr = << >>
    /\ failure = "none"
    /\ ToolIdle

\* return Err(..) from main
Fail(why) ==
    /\ pc' = "failed"
    /\ failure' = why

\* lines 406-432: collect the patch for the command
CollectContext ==
    /\ pc = "collect"
    /\ \E gitOk \in BOOLEAN :
          LET r == CollectPatch(command, cached, gitOk, head, index, worktree)
          IN  IF r.ok
              THEN /\ patch' = r.val
                   /\ pc' = "history"
                   /\ UNCHANGED failure
              ELSE /\ Fail(r.err)
                   /\ UNCHANGED patch
    /\ UNCHANGED << command, signoff, cached, interactive, head, index, worktree,
                    gitLog,
                    messages, requests, response, msg, commits, tempfile,
                    wcExit, stdout, stderr >>
    /\ UNCHANGED ToolVars

\* lines 437-465: the style samples, the system prompts and the message list
BuildMessages ==
    /\ pc = "history"
    /\ \E gitOk \in BOOLEAN :
          IF gitOk
          THEN /\ messages' = InitialMessages(command, patch,
                                  get_last_git_messages(GitLogOutput(gitLog)))
               /\ pc' = "request"
               /\ UNCHANGED failure
          ELSE /\ Fail("git_history")
               /\ UNCHANGED messages
    /\ UNCHANGED << command, signoff, cached, interactive, head, index, worktree,
                    gitLog,
                    patch, requests, response, msg, commits, tempfile, wcExit,
                    stdout, stderr >>
    /\ UNCHANGED ToolVars

\* lines 467-472: the one call of post_request
PostRequest ==
    /\ pc = "request"
    /\ requests' = requests + 1
    /\ \E r \in Replies :
          /\ response' = r
          /\ IF r.kind = "err"
             THEN Fail("request")
             ELSE pc' = "reply" /\ UNCHANGED failure
    /\ UNCHANGED << command, signoff, cached, interactive, head, index, worktree,
                    gitLog,
                    patch, messages, msg, commits, tempfile, wcExit, stdout,
                    stderr >>
    /\ UNCHANGED ToolVars

\* lines 474-485: the text of the reply
ExtractMessage ==
    /\ pc = "reply"
    /\ LET m == ExtractMsg(response)
       IN  IF m.ok
           THEN /\ msg' = m.val
                /\ pc' = "apply"
                /\ UNCHANGED failure
           ELSE /\ Fail("no_responses")
                /\ UNCHANGED msg
    /\ UNCHANGED << command, signoff, cached, interactive, head, index, worktree,
                    gitLog,
                    patch, messages, requests, response, commits, tempfile,
                    wcExit, stdout, stderr >>
    /\ UNCHANGED ToolVars

\* what the editor started by git commit --edit may leave as the message
EditedText == << "E", "d", "i", "t" >>

CommitRecord(op, message, changes, so) ==
    [op |-> op, message |-> message, changes |-> changes, signoff |-> so]

\* git commit [-a] [-s] -F ...: the commit is created, and the index and HEAD
\* move, when something is recorded and the message is not blank
GitCommitDone(message) ==
    LET all == ~cached
        recorded == GitCommitChanges(all, head, index, worktree)
    IN  /\ recorded # { }
        /\ ~BlankMessage(message)
        /\ commits' = Append(commits, CommitRecord("commit", message, recorded, signoff))
        /\ index' = IF all THEN worktree ELSE index
        /\ head' = IF all THEN worktree ELSE index
        /\ UNCHANGED worktree

\* lines 306-332: amend_commit(&msg)
ApplyFixup ==
    /\ pc = "apply"
    /\ ActionApplier(command) = "amend_commit"
    /\ \E outcome \in { "spawn_err", "exit_fail", "ok" } :
          IF outcome = "ok"
          THEN /\ ~BlankMessage(msg)
               /\ commits' = Append(commits,
                      CommitRecord("amend", msg, Changes(head, index), FALSE))
               /\ head' = index
               /\ pc' = "done"
               /\ UNCHANGED failure
          ELSE /\ Fail("amend_commit")
               /\ UNCHANGED << commits, head >>
    /\ UNCHANGED << command, signoff, cached, interactive, index, worktree, patch,
                    gitLog,
                    messages, requests, response, msg, tempfile, wcExit, stdout,
                    stderr >>
    /\ UNCHANGED ToolVars

\* lines 335-344: check_commit(&msg)
ApplyCheck ==
    /\ pc = "apply"
    /\ ActionApplier(command) = "check_commit"
    /\ LET r == check_commit(msg)
       IN  /\ stdout' = stdout \o r.out
           /\ stderr' = stderr \o r.err
           /\ IF r.ok
              THEN pc' = "done" /\ UNCHANGED failure
              ELSE Fail("wrong commit message")
    /\ UNCHANGED << command, signoff, cached, interactive, head, index, worktree,
                    gitLog,
                    patch, messages, requests, response, msg, commits, tempfile,
                    wcExit >>
    /\ UNCHANGED ToolVars

\* lines 505-508: println!("{}", msg)
ApplySummary ==
    /\ pc = "apply"
    /\ ActionApplier(command) = "println"
    /\ stdout' = PrintLn(stdout, msg)
    /\ pc' = "done"
    /\ UNCHANGED << command, signoff, cached, interactive, head, index, worktree,
                    gitLog,
                    patch, messages, requests, response, msg, commits, tempfile,
                    wcExit, stderr, failure >>
    /\ UNCHANGED ToolVars

\* lines 276-302: write_commit without --interactive, the message on stdin
WriteCommitStdin ==
    /\ pc = "apply"
    /\ ActionApplier(command) = "write_commit"
    /\ ~interactive
    /\ \E outcome \in { "spawn_err", "exit_fail", "ok" } :
          /\ wcExit' = outcome
          /\ IF outcome = "ok"
             THEN /\ GitCommitDone(msg)
                  /\ pc' = "done"
                  /\ UNCHANGED failure
             ELSE /\ Fail("write_commit")
                  /\ UNCHANGED << commits, head, index, worktree >>
    /\ UNCHANGED << command, signoff, cached, interactive, patch, messages,
                    gitLog,
                    requests, response, msg, tempfile, stdout, stderr >>
    /\ UNCHANGED ToolVars

\* lines 255-258: the temporary file is created and its path taken
WcCreateTemp ==
    /\ pc = "apply"
    /\ ActionApplier(command) = "write_commit"
    /\ interactive
    /\ \E outcome \in { "tempfile_err", "path_err", "ok" } :
          CASE outcome = "tempfile_err" ->
                 /\ UNCHANGED tempfile
                 /\ wcExit' = outcome
                 /\ Fail("write_commit")
            [] outcome = "path_err" ->
                 /\ tempfile' = DropTempfile("exists")
                 /\ wcExit' = outcome
                 /\ Fail("write_commit")
            [] outcome = "ok" ->
                 /\ tempfile' = "exists"
                 /\ pc' = "wc_write"
                 /\ UNCHANGED << wcExit, failure >>
    /\ UNCHANGED << command, signoff, cached, interactive, head, index, worktree,
                    gitLog,
                    patch, messages, requests, response, msg, commits, stdout,
                    stderr >>
    /\ UNCHANGED ToolVars

\* line 261: std::fs::write(tempfile.path(), commit_msg)
WcWriteTemp ==
    /\ pc = "wc_write"
    /\ \E ok \in BOOLEAN :
          IF ok
          THEN /\ pc' = "wc_spawn"
               /\ UNCHANGED << tempfile, wcExit, failure >>
          ELSE /\ tempfile' = DropTempfile(tempfile)
               /\ wcExit' = "write_err"
               /\ Fail("write_commit")
    /\ UNCHANGED << command, signoff, cached, interactive, head, index, worktree,
                    gitLog,
                    patch, messages, requests, response, msg, commits, stdout,
                    stderr >>
    /\ UNCHANGED ToolVars

\* lines 263-267: git commit -F <path> --edit is spawned
WcSpawn ==
    /\ pc = "wc_spawn"
    /\ \E ok \in BOOLEAN :
          IF ok
          THEN /\ pc' = "wc_wait"
               /\ UNCHANGED << tempfile, wcExit, failure >>
          ELSE /\ tempfile' = DropTempfile(tempfile)
               /\ wcExit' = "spawn_err"
               /\ Fail("write_commit")
    /\ UNCHANGED << command, signoff, cached, interactive, head, index, worktree,
                    gitLog,
                    patch, messages, requests, response, msg, commits, stdout,
                    stderr >>
    /\ UNCHANGED ToolVars

\* lines 268-275: the editor and the commit end, and write_commit returns
WcWait ==
    /\ pc = "wc_wait"
    /\ \E outcome \in { "wait_err", "exit_fail", "ok" } :
          /\ wcExit' = outcome
          /\ tempfile' = DropTempfile(tempfile)
          /\ IF outcome = "ok"
             THEN /\ \E edited \in { msg, EditedText } : GitCommitDone(edited)
                  /\ pc' = "done"
                  /\ UNCHANGED failure
             ELSE /\ Fail("write_commit")
                  /\ UNCHANGED << commits, head, index, worktree >>
    /\ UNCHANGED << command, signoff, cached, interactive, patch, messages,
                    gitLog,
                    requests, response, msg, stdout, stderr >>
    /\ UNCHANGED ToolVars

Next ==
    \/ CollectContext
    \/ BuildMessages
    \/ PostRequest
    \/ ExtractMessage
    \/ ApplyFixup
    \/ ApplyCheck
    \/ ApplySummary
    \/ WriteCommitStdin
    \/ WcCreateTemp
    \/ WcWriteTemp
    \/ WcSpawn
    \/ WcWait

Spec == Init /\ [][Next]_vars

(***************************************************************************)
(* tool_read_file and run_git_command                                      *)
(***************************************************************************)
Paths == { "a", "b", "gone", "{}" }

\* the blob git stores for a path
Blob(path) == << "content of ", path >>

\* A command-line argument is the list of the pieces it is spelled from:
\* << "HEAD:", "{}" >> is the argument HEAD:{}.
\* git show <object> [<path>...] run through run_git_command: the object
\* HEAD:<p> is the blob of p at HEAD; an argument that is no revision is a
\* path, and git gives up unless it exists; a non-zero exit is Err(stderr)
run_git_show(args, atHead) ==
    LET object == args[2]
        others == { args[i] : i \in 3..Len(args) }
    IN  IF /\ Len(object) = 2
           /\ object[1] = "HEAD:"
           /\ object[2] \in atHead
           /\ \A o \in others : Len(o) = 1 /\ o[1] \in atHead
        THEN [state |-> "done", ok |-> TRUE, val |-> Blob(object[2])]
        ELSE [state |-> "done", ok |-> FALSE, val |-> << "git stderr" >>]

\* serde_json::from_str::<Params>: an object whose field path is a string;
\* other fields are ignored
ParseParams(text) ==
    IF text.wellFormed /\ text.path[1] = "string"
    THEN [ok |-> TRUE, path |-> text.path[2]]
    ELSE [ok |-> FALSE, path |-> ""]

\* the argument vector of line 90: vec!["show", "HEAD:{}", &params.path]
ReadFileArgs(path) == << << "show" >>, << "HEAD:", "{}" >>, << path >> >>

\* the argument texts the provider may send: malformed text, or an object
\* whose path is absent, a number or a string, with or without another field
ArgTexts ==
    { [wellFormed |-> wf, path |-> p, extra |-> e] :
        wf \in BOOLEAN, e \in BOOLEAN,
        p \in { << "absent" >>, << "number" >> } \cup { << "string", q >> : q \in Paths } }

InitTool ==
    /\ PipelineIdle
    /\ toolArgs \in ArgTexts
    /\ toolRepo \in SUBSET Paths
    /\ toolRes = [state |-> "idle", ok |-> FALSE, val |-> << >>]
    /\ gitCalls = << >>

\* lines 82-91: tool_read_file(params_str)
tool_read_file ==
    /\ toolRes.state = "idle"
    /\ LET params == ParseParams(toolArgs)
       IN  IF params.ok
           THEN /\ gitCalls' = Append(gitCalls, ReadFileArgs(params.path))
                /\ toolRes' = run_git_show(ReadFileArgs(params.path), toolRepo)
           ELSE /\ toolRes' = [state |-> "done", ok |-> FALSE, val |-> << "serde_json" >>]
                /\ UNCHANGED gitCalls
    /\ UNCHANGED << toolArgs, toolRepo >>
    /\ UNCHANGED PipelineVars

NextTool == tool_read_file

SpecTool == InitTool /\ [][NextTool]_vars

(***************************************************************************)
(* check_commit on every reply text of a bounded family.                   *)
(***************************************************************************)
ReplyHeads ==
    { << >>,
      << "E", "R", "R", "O", "R" >>,
      << "E", "R", "R", "O", "R", "\n" >>,
      << "E", "R", "R", "O", "R", "\r", "\n" >>,
      << "E", "R", "R", "O", "R", " ", "\n" >>,
      << " ", "E", "R", "R", "O", "R", "\n" >>,
      << "e", "r", "r", "o", "r", "\n" >>,
      << "O", "K", "\n", "E", "R", "R", "O", "R", "\n" >> }

TailChars == { " ", "\n", "f" }

CheckReplies == { h \o t : h \in ReplyHeads, t \in SeqsUpTo(TailChars, MaxTail) }

\* main after a successful post_request of the check command
InitCheck ==
    /\ command = "check"
    /\ signoff = FALSE /\ cached = FALSE /\ interactive = FALSE
    /\ head = [f \in Files |-> 0]
    /\ index = [f \in Files |-> 0]
    /\ worktree = [f \in Files |-> 0]
    /\ gitLog = << >>
    /\ pc = "reply"
    /\ patch = get_log_patch("log -p -1", TRUE).val
    /\ messages = InitialMessages("check", patch, << >>)
    /\ requests = 1
    /\ \E text \in CheckReplies : response = [kind |-> "some", choices |-> << text >>]
    /\ msg = << >>
    /\ commits = << >>
    /\ tempfile = "none"
    /\ wcExit = "none"
    /\ stdout = << >>
    /\ stderr = << >>
    /\ failure = "none"
    /\ ToolIdle

NextCheck ==
    \/ ExtractMessage
    \/ ApplyCheck

SpecCheck == InitCheck /\ [][NextCheck]_vars

(***************************************************************************)
(* get_last_git_messages on every log of a bounded family.                 *)
(***************************************************************************)
LineSet ==
    { << "F", "i", "x" >>,
      << >>,
      << "T", ":", " ", "v" >>,
      << " ", "T", ":", " ", "v" >>,
      << "T", ":", "v" >> }

\* the end of one commit's message in a stream of lines
EndOfCommit == << "end of commit" >>

LogStreams ==
    { s \in SeqsUpTo(LineSet \cup { EndOfCommit }, MaxLogItems) :
        s = << >> \/ s[Len(s)] = EndOfCommit }

RECURSIVE GroupCommits(_, _)
GroupCommits(s, cur) ==
    IF s = << >> THEN << >>
    ELSE IF Head(s) = EndOfCommit THEN << cur >> \o GroupCommits(Tail(s), << >>)
    ELSE GroupCommits(Tail(s), Append(cur, Head(s)))

LogInputs == { GroupCommits(s, << >>) : s \in LogStreams }

\* main after the patch of the fixup command was collected
InitHistory ==
    /\ command = "fixup"
    /\ signoff = FALSE /\ cached = FALSE /\ interactive = FALSE
    /\ head = [f \in Files |-> 0]
    /\ index = [f \in Files |-> 0]
    /\ worktree = [f \in Files |-> 0]
    /\ gitLog \in LogInputs
    /\ pc = "history"
    /\ patch = get_log_patch("log -p -1", TRUE).val
    /\ messages = << >>
    /\ requests = 0
    /\ response = [kind |-> "pending", choices |-> << >>]
    /\ msg = << >>
    /\ commits = << >>
    /\ tempfile = "none"
    /\ wcExit = "none"
    /\ stdout = << >>
    /\ stderr = << >>
    /\ failure = "none"
    /\ ToolIdle

NextHistory == BuildMessages

SpecHistory == InitHistory /\ [][NextHistory]_vars

(***************************************************************************)
(* Properties.                                                             *)
(***************************************************************************)
Returned == pc \in { "done", "failed" }

EarlyFailures == { "git", "empty_diff", "git_history", "request", "no_responses" }

\* C1: when a step before the action applier fails (context collection, an
\* empty diff, the style samples, the provider request, a missing or empty
\* choice list), no commit and no amend has been performed; and a commit or
\* amend is only ever performed as the last step of a run whose single
\* post_request returned a reply with at least one choice.
C1_NoMutationOnFailure ==
    /\ failure \in EarlyFailures =>
          /\ commits = << >>
          /\ head = [f \in Files |-> 0]
    /\ commits # << >> =>
          /\ pc = "done"
          /\ failure = "none"
          /\ requests = 1
          /\ response.kind = "some"
          /\ Len(response.choices) >= 1

\* C1 witness: a write run that ended on a reply with an empty choice list
C1_Witness ==
    /\ command = "write"
    /\ pc = "failed"
    /\ failure = "no_responses"
    /\ response.kind = "some"
    /\ response.choices = << >>
    /\ commits = << >>

\* C2: for write, once get_diff has found the diff empty (for either value of
\* cached) the run has failed with the empty-change-set error and no request
\* was sent to the provider.
C2_EmptyDiffBeforeRequest ==
    ( /\ command = "write"
      /\ pc # "collect"
      /\ commits = << >>
      /\ failure # "git"
      /\ GitDiff(cached, head, index, worktree) = { } )
    => /\ pc = "failed"
       /\ failure = "empty_diff"
       /\ requests = 0
       /\ messages = << >>

\* C2 witness: write without --cached on a work tree equal to the index
C2_Witness ==
    /\ command = "write"
    /\ ~cached
    /\ GitDiff(cached, head, index, worktree) = { }
    /\ failure = "empty_diff"
    /\ requests = 0

\* t is r without its leading and trailing whitespace
IsTrimmed(t, r) ==
    \E i \in 0..Len(r) : \E j \in i..Len(r) :
        /\ t = SubSeq(r, i + 1, j)
        /\ \A k \in 1..i : IsWhitespace(r[k])
        /\ \A k \in (j + 1)..Len(r) : IsWhitespace(r[k])
        /\ t = << >> \/ (~IsWhitespace(t[1]) /\ ~IsWhitespace(t[Len(t)]))

BeginsWithErrorLine(text) ==
    /\ Len(text) >= 6
    /\ text[1] = "E" /\ text[2] = "R" /\ text[3] = "R" /\ text[4] = "O"
    /\ text[5] = "R" /\ text[6] = NL

\* C3: for check, a reply text that begins with the line ERROR and a newline
\* has the rest, trimmed, printed as one line on the error stream, nothing on
\* standard output, and the run fails; any other text (ERROR without the
\* newline included) is printed whole as one line on standard output and the
\* run succeeds.
C3_CheckCommit ==
    ( command = "check" /\ Returned /\ response.kind = "some"
      /\ Len(response.choices) = 1 )
    => LET text == response.choices[1]
       IN  IF BeginsWithErrorLine(text)
           THEN /\ pc = "failed"
                /\ stdout = << >>
                /\ stderr # << >>
                /\ stderr[Len(stderr)] = NL
                /\ IsTrimmed(SubSeq(stderr, 1, Len(stderr) - 1),
                             SubSeq(text, 7, Len(text)))
           ELSE /\ pc = "done"
                /\ stderr = << >>
                /\ stdout = text \o << NL >>

\* C3 witness: an ERROR reply whose explanation had whitespace to trim
C3_Witness ==
    /\ command = "check"
    /\ pc = "failed"
    /\ failure = "wrong commit message"
    /\ Len(stderr) > 1
    /\ Len(stderr) - 1 < Len(response.choices[1]) - 6

(* the trailer pattern <token>: <value>, stated on a line *)
IsTrailerLine(l) ==
    \E i \in 1..Len(l) :
        /\ \A k \in 1..i : TokenClass(l[k])
        /\ Len(l) >= i + 3
        /\ l[i + 1] = ":"
        /\ IsWhitespace(l[i + 2])

NonEmptyText(t) == t # << >>

\* the lines of a message before its first line for which Matches holds
LinesBefore(lines, Matches(_)) ==
    LET hits == { i \in 1..Len(lines) : Matches(lines[i]) }
        first == IF hits = { } THEN Len(lines) + 1
                 ELSE CHOOSE i \in hits : \A j \in hits : i <= j
    IN  SubSeq(lines, 1, first - 1)

TrimmedIsTrailer(l) == IsTrailerLine(Trim(l))

\* the samples as the claim words them: cut at the first trailer line, the
\* lines before it kept as they are, empty results dropped
SamplesAsClaimed(log) ==
    SelectSeq([i \in 1..Len(log) |->
                  Join(LinesBefore(log[i], IsTrailerLine), << NL >>)],
              NonEmptyText)

\* the samples with the surrounding whitespace removed: the pattern is looked
\* for in the trimmed line and what is kept is trimmed as a whole
SamplesTrimmed(log) ==
    SelectSeq([i \in 1..Len(log) |->
                  Trim(Join(LinesBefore(log[i], TrimmedIsTrailer), << NL >>))],
              NonEmptyText)

StyleSamples == messages[2].content.body

\* C5 as stated: every message is cut at its first trailer line with the lines
\* before it kept, dropped when nothing remains, and the order is kept.
C5_AsClaimed ==
    messages # << >> => StyleSamples = SamplesAsClaimed(gitLog)

\* C5 amended: every message is cut at the first line that matches the trailer
\* pattern once trimmed, the lines before it are kept with the whitespace
\* (blank lines included) around them removed, a message of which nothing or
\* only whitespace remains is dropped, and the order is kept.
C5_TrimmedSamples ==
    messages # << >> => StyleSamples = SamplesTrimmed(gitLog)

\* C5 witness: a message cut after its first line, and a message dropped
C5_Witness ==
    /\ messages # << >>
    /\ Len(gitLog) = 2
    /\ gitLog[1] = << << "F", "i", "x" >>, << "T", ":", " ", "v" >> >>
    /\ gitLog[2] = << << "T", ":", " ", "v" >> >>
    /\ StyleSamples = << << "F", "i", "x" >> >>

RECURSIVE TotalLen(_)
TotalLen(cs) == IF cs = << >> THEN 0 ELSE Len(Head(cs)) + TotalLen(Tail(cs))

\* m holds every content of cs, in order, one right after the other
IsConcatenation(m, cs) ==
    /\ Len(m) = TotalLen(cs)
    /\ \A i \in 1..Len(cs) :
          LET off == TotalLen(SubSeq(cs, 1, i - 1))
          IN  SubSeq(m, off + 1, off + Len(cs[i])) = cs[i]

\* C6: once the reply is processed, a reply with one or more choices has given
\* the applier the contents of all its choices, in order, with nothing between
\* them and none left out; a reply with no choice list or an empty one has
\* ended the run with an error.
C6_Concatenation ==
    ( response.kind \in { "some", "none" } /\ pc # "reply" )
    => IF response.kind = "some" /\ Len(response.choices) >= 1
       THEN /\ failure # "no_responses"
            /\ IsConcatenation(msg, response.choices)
       ELSE /\ pc = "failed"
            /\ failure = "no_responses"
            /\ msg = << >>

\* C6 witness: a reply with two different non-empty choices
C6_Witness ==
    /\ pc = "apply"
    /\ Len(response.choices) = 2
    /\ response.choices[1] # << >>
    /\ response.choices[2] # << >>
    /\ response.choices[1] # response.choices[2]

\* C7 as stated: for an argument text that decodes to an object with a string
\* path, exactly one git command is run, git show HEAD:<path>, and its output
\* (the blob of that path at HEAD) is returned, or its error when the path
\* does not exist at HEAD; otherwise the tool fails without running git.
C7_ReadFileAtHead ==
    toolRes.state = "done" =>
        IF toolArgs.wellFormed /\ toolArgs.path[1] = "string"
        THEN LET path == toolArgs.path[2]
             IN  /\ gitCalls = << << << "show" >>, << "HEAD:", path >> >> >>
                 /\ path \in toolRepo => toolRes.ok /\ toolRes.val = Blob(path)
                 /\ path \notin toolRepo => ~toolRes.ok
        ELSE /\ gitCalls = << >>
             /\ ~toolRes.ok

\* C8: in interactive write mode the temporary file does not exist once
\* write_commit has returned, however it returned.
C8_TempfileRemoved ==
    ( command = "write" /\ interactive /\ Returned ) => tempfile # "exists"

\* C8 witness: the editor or the commit ended with a non-zero status
C8_Witness ==
    /\ command = "write"
    /\ interactive
    /\ pc = "failed"
    /\ wcExit = "exit_fail"
    /\ tempfile = "removed"

\* C9: check and summary never mutate the repository; a commit is only
\* created by write, an amend only done by fixup, and at most one per run.
C9_OnlyWriteAndFixupMutate ==
    /\ command \in { "check", "summary" } =>
          /\ commits = << >>
          /\ head = [f \in Files |-> 0]
    /\ Len(commits) <= 1
    /\ \A i \in 1..Len(commits) :
          /\ commits[i].op = "commit" => command = "write"
          /\ commits[i].op = "amend" => command = "fixup"

\* C9 witness: a check run that ended well
C9_Witness ==
    /\ command = "check"
    /\ pc = "done"
    /\ stdout # << >>
    /\ commits = << >>

\* C10 as stated: for write, the changes in the diff sent to the model are the
\* changes the commit records, and without --cached a repository whose only
\* changes are staged is not rejected as an empty change set.
C10_DiffIsWhatIsCommitted ==
    /\ ( command = "write" /\ commits # << >> ) => patch = commits[1].changes
    /\ ( command = "write" /\ ~cached /\ failure = "empty_diff" ) =>
          Changes(head, index) = { }

====
